---------------------------- MODULE Spec2Model ----------------------------
(***************************************************************************)
(* Rule-configuration subsystem of the engine (src/src/variant.cpp):       *)
(*   - Variant::conclude(), the derivation of the computed fields of a     *)
(*     ruleset from its raw fields;                                        *)
(*   - VariantMap (add, clear_all, init) and parse_istream, the            *)
(*     registry of rulesets and the INI-style parser with templates.       *)
(* Rulesets live on a heap (pointer -> record); the registry maps names to *)
(* pointers, as std::map<std::string, const Variant*> does.                *)
(***************************************************************************)
EXTENDS Integers, Sequences, FiniteSets, TLC

(***************************************************************************)
(* Types of types.h that variant.cpp uses.  Only the relative order of the *)
(* piece types matters (lsb() takes the smallest): KING is the largest,    *)
(* COMMONER lies between the chess pieces and the custom pieces.           *)
(***************************************************************************)
WHITE == 0
BLACK == 1
Color == {WHITE, BLACK}
Opp(c) == 1 - c

NO_PIECE_TYPE == 0
PAWN == 1
KNIGHT == 2
BISHOP == 3
ROOK == 4
QUEEN == 5
FERS == 6
SILVER == 7
IMMOBILE_PIECE == 8
COMMONER == 9
CUSTOM_PIECE_1 == 10
KING == 11

PieceTypes == PAWN..KING
AllPieceTypes == NO_PIECE_TYPE..KING
Pieces == Color \X AllPieceTypes

make_piece(c, pt) == <<c, pt>>
piece_set(pt) == {pt}

CHESS_PIECES == {PAWN, KNIGHT, BISHOP, ROOK, QUEEN, KING}
COMMON_FAIRY_PIECES == {FERS, SILVER, COMMONER, IMMOBILE_PIECE}
SHOGI_PIECES == {PAWN, KNIGHT, BISHOP, ROOK, SILVER, KING}
COMMON_STEP_PIECES == {COMMONER, FERS, IMMOBILE_PIECE}

\* Board limits of the build without LARGEBOARDS (8x8; flipersi uses the
\* largest rank and file, the 10x10 game exists only under LARGEBOARDS).
FILE_MAX == 7
RANK_MAX == 7
FILE_NB == FILE_MAX + 1
SQUARE_NB == 64
Squares == 0..(SQUARE_NB - 1)

VALUE_DRAW == 0
VALUE_MATE == 32000
VALUE_NONE == 32002

lsb(ps) == CHOOSE p \in ps : \A q \in ps : p <= q

make_square(f, r) == r * FILE_NB + f
file_of(s) == s % FILE_NB
rank_of(s) == s \div FILE_NB
\* relative_square(c, s, maxRank): the square seen from colour c
relative_square(c, s, maxRank) ==
    make_square(file_of(s), IF c = WHITE THEN rank_of(s) ELSE maxRank - rank_of(s))

RankBB(r) == {s \in Squares : rank_of(s) = r}

(***************************************************************************)
(* Strings are sequences of one-character strings.                         *)
(***************************************************************************)
\* std::count(begin, end, ch)
CountChar(str, ch) == Cardinality({i \in 1..Len(str) : str[i] = ch})

\* std::string::find(ch): the first position (0-based) of ch, or npos = -1
FindChar(str, ch) ==
    IF \E i \in 1..Len(str) : str[i] = ch
    THEN (CHOOSE i \in 1..Len(str) :
             str[i] = ch /\ \A j \in 1..(i - 1) : str[j] # ch) - 1
    ELSE -1

\* startFen.substr(0, startFen.find(' ')): npos takes the whole string
FenBoard(fen) ==
    LET p == FindChar(fen, " ")
    IN  IF p = -1 THEN fen ELSE SubSeq(fen, 1, p)


(***************************************************************************)
(* Variant::conclude(), lines 148-295.  A ruleset is a record; conclude    *)
(* rewrites doubleStep / doubleStepRegion and all derived fields.          *)
(***************************************************************************)

\* lines 150-153: enforce consistency of doubleStep and its regions
DoubleStepNoSecondIf(v) ==
    IF ~v.doubleStep
    THEN [v EXCEPT !.doubleStepRegion = [c \in Color |-> {}]]
    ELSE v

DoubleStepConsistency(v) ==
    LET v1 == IF ~v.doubleStep
              THEN [v EXCEPT !.doubleStepRegion = [c \in Color |-> {}]]
              ELSE v
    IN  IF v1.doubleStepRegion[WHITE] = {} /\ v1.doubleStepRegion[BLACK] = {}
        THEN [v1 EXCEPT !.doubleStep = FALSE]
        ELSE v1

\* lines 156-162
RestrictedMobility(v) ==
    \E pt \in v.pieceTypes :
        v.mobilityRegion[WHITE][pt] # {} \/ v.mobilityRegion[BLACK][pt] # {}

\* lines 163-167
FastAttacks(v) ==
    /\ v.pieceTypes \ (CHESS_PIECES \cup COMMON_FAIRY_PIECES) = {}
    /\ v.kingType = KING
    /\ ~RestrictedMobility(v)
    /\ ~v.cambodianMoves
    /\ ~v.diagonalLines

\* lines 168-172
FastAttacks2(v) ==
    /\ v.pieceTypes \ (SHOGI_PIECES \cup COMMON_STEP_PIECES) = {}
    /\ v.kingType = KING
    /\ ~RestrictedMobility(v)
    /\ ~v.cambodianMoves
    /\ ~v.diagonalLines

\* lines 175-177: the candidate anchor
AnchorCandidate(v) ==
    IF KING \in v.pieceTypes THEN KING
    ELSE IF v.extinctionPieceCount = 0 /\ COMMONER \in v.extinctionPieceTypes
         THEN COMMONER
    ELSE NO_PIECE_TYPE

\* lines 182-184: the candidate is involved in promotion
InPromotion(v, k) ==
    \/ k \in (v.promotionPawnTypes[WHITE] \cup v.promotionPawnTypes[BLACK])
    \/ k \in (v.promotionPieceTypes[WHITE] \cup v.promotionPieceTypes[BLACK])
    \/ \E pt \in AllPieceTypes : v.promotedPieceType[pt] = k

\* lines 189-192: the candidate is not exactly once per colour on the board
NotUniqueAtMostOnce(v, k) ==
    LET fenBoard == FenBoard(v.startFen)
    IN  \/ CountChar(fenBoard, v.pieceToChar[make_piece(WHITE, k)]) = 0
        \/ CountChar(fenBoard, v.pieceToChar[make_piece(BLACK, k)]) = 0

NotUnique(v, k) ==
    LET fenBoard == FenBoard(v.startFen)
    IN  \/ CountChar(fenBoard, v.pieceToChar[make_piece(WHITE, k)]) # 1
        \/ CountChar(fenBoard, v.pieceToChar[make_piece(BLACK, k)]) # 1

\* lines 175-194
NnueKing(v) ==
    LET k0 == AnchorCandidate(v)
        k1 == IF k0 # NO_PIECE_TYPE /\ InPromotion(v, k0) THEN NO_PIECE_TYPE ELSE k0
    IN  IF k1 # NO_PIECE_TYPE /\ NotUnique(v, k1) THEN NO_PIECE_TYPE ELSE k1

\* line 196
NnueSquares(v) == (v.maxRank + 1) * (v.maxFile + 1)

\* line 197
NnueUsePockets(v) ==
    \/ (v.pieceDrops /\ (v.capturesToHand
                         \/ (~v.mustDrop /\ Cardinality(v.pieceTypes) # 1)))
    \/ v.seirawanGating

\* line 198
NnuePockets(v) == IF NnueUsePockets(v) THEN 2 * (v.maxFile + 1) ELSE 0

Bit(b) == IF b THEN 1 ELSE 0

\* line 199
NnueNonDropPieceIndices(v, k) ==
    (2 * Cardinality(v.pieceTypes) - Bit(k # NO_PIECE_TYPE)) * NnueSquares(v)

\* line 200
NnuePieceIndices(v, k) ==
    NnueNonDropPieceIndices(v, k)
      + 2 * (Cardinality(v.pieceTypes) - Bit(k # NO_PIECE_TYPE)) * NnuePockets(v)

\* line 205: the piece type the offset loop takes next
NextPieceTypePlain(ps, k) == lsb(ps)

NextPieceType(ps, k) ==
    lsb(IF ps # piece_set(k) THEN ps \ piece_set(k) ELSE ps)

\* lines 209-215: the four table entries of piece type pt, the i-th taken
SetOffsets(tab, pt, i, k, sq, pockets, nonDrop) ==
    [tab EXCEPT
       !.square = [c \in Color |-> [pce \in Pieces |->
          IF pce = make_piece(c, pt) THEN 2 * i * sq
          ELSE IF pce = make_piece(Opp(c), pt) THEN (2 * i + Bit(pt # k)) * sq
          ELSE tab.square[c][pce]]],
       !.hand = [c \in Color |-> [pce \in Pieces |->
          IF pce = make_piece(c, pt) THEN 2 * i * pockets + nonDrop
          ELSE IF pce = make_piece(Opp(c), pt) THEN (2 * i + 1) * pockets + nonDrop
          ELSE tab.hand[c][pce]]],
       !.order = Append(tab.order, pt)]

RECURSIVE OffsetLoop(_, _, _, _, _, _, _)
\* lines 201-217; tab.assertOk records `assert(pt != nnueKing || !ps)`
OffsetLoop(ps, i, tab, k, sq, pockets, nonDrop) ==
    IF ps = {} THEN tab
    ELSE LET pt  == NextPieceType(ps, k)
             ps1 == ps \ {pt}
             t1  == [tab EXCEPT !.assertOk = tab.assertOk /\ (pt # k \/ ps1 = {})]
         IN  OffsetLoop(ps1, i + 1, SetOffsets(t1, pt, i, k, sq, pockets, nonDrop),
                        k, sq, pockets, nonDrop)

Offsets(v, k) ==
    OffsetLoop(v.pieceTypes, 0,
               [square |-> v.pieceSquareIndex, hand |-> v.pieceHandIndex,
                order |-> <<>>, assertOk |-> TRUE],
               k, NnueSquares(v), NnuePockets(v), NnueNonDropPieceIndices(v, k))

\* line 228
BitboardSquare(v, s) == s + (s \div (v.maxFile + 1)) * (FILE_MAX - v.maxFile)

\* make_bitboard(s) & region; a square outside the 64-bit board is a shift
\* by 64 or more, whose outcome the build decides (ub)
TestBit(region, s, ub) == IF s \in Squares THEN s \in region ELSE ub

\* lines 229-231: square s gets a king-square index
KingReachable(v, k, s, ub) ==
    LET bb == BitboardSquare(v, s)
    IN  \/ v.mobilityRegion[WHITE][k] = {}
        \/ v.mobilityRegion[BLACK][k] = {}
        \/ TestBit(v.mobilityRegion[WHITE][k], bb, ub)
        \/ TestBit(v.mobilityRegion[BLACK][k], relative_square(BLACK, bb, v.maxRank), ub)

\* line 233: the index written for the n-th reachable square s
KingIndexBySquare(s, n, pieceIndices) == s * pieceIndices

KingIndex(s, n, pieceIndices) == n * pieceIndices

\* the squares the loop of lines 226-235 gives an index
KingReachableSet(v, k, ub) ==
    {s \in 0..(NnueSquares(v) - 1) : KingReachable(v, k, s, ub)}

\* lines 226-235: the table and nnueKingSquare after the loop; the counter
\* nnueKingSquare at square s is the number of indexed squares before s
KingLoop(reach, tab, pieceIndices) ==
    [tab |-> [s \in Squares |->
                IF s \in reach
                THEN KingIndex(s, Cardinality({t \in reach : t < s}), pieceIndices)
                ELSE tab[s]],
     n |-> Cardinality(reach)]

\* lines 224-237
KingSquares(v, k, ub) ==
    LET pi == NnuePieceIndices(v, k)
    IN  IF k # NO_PIECE_TYPE /\ NnueSquares(v) <= SQUARE_NB
        THEN KingLoop(KingReachableSet(v, k, ub), v.kingSquareIndex, pi)
        ELSE [tab |-> [v.kingSquareIndex EXCEPT ![0] = 0 * pi], n |-> 1]

IsSpace(ch) == ch \in {" ", "\t", "\n", "\r"}

\* the characters `ss >> token` reads before the first whitespace, line 245
FenTokens(fen) ==
    IF \E i \in 1..Len(fen) : IsSpace(fen[i])
    THEN SubSeq(fen, 1, (CHOOSE i \in 1..Len(fen) :
                            IsSpace(fen[i]) /\ \A j \in 1..(i - 1) : ~IsSpace(fen[j])) - 1)
    ELSE fen

\* line 247: token is a piece symbol or a synonym
IsPieceChar(v, ch) ==
    \E pce \in Pieces : v.pieceToChar[pce] = ch \/ v.pieceToCharSynonyms[pce] = ch

\* lines 245-249 add one per piece symbol to the count `from`
CountPieces(v, from) ==
    LET toks == FenTokens(v.startFen)
    IN  from + Cardinality({i \in 1..Len(toks) : IsPieceChar(v, toks[i])})

\* lines 241-251; line 244 resets the count to 0
MaxPiecesNoReset(v) ==
    LET n == CountPieces(v, v.nnueMaxPieces)
    IN  IF v.twoBoards THEN 2 * n ELSE n

NnueMaxPieces(v) ==
    LET n == CountPieces(v, 0)
    IN  IF v.twoBoards THEN 2 * n ELSE n

\* lines 255-269
EndgameEval(v) ==
    /\ v.extinctionValue = VALUE_NONE
    /\ v.checkmateValue = -VALUE_MATE
    /\ v.stalemateValue = VALUE_DRAW
    /\ v.materialCounting = "NO_MATERIAL_COUNTING"
    /\ ~(v.flagRegion[WHITE] # {} \/ v.flagRegion[BLACK] # {})
    /\ ~v.mustCapture
    /\ ~v.checkCounting
    /\ ~v.makpongRule
    /\ v.connectN = 0
    /\ ~v.blastOnCapture
    /\ v.petrifyOnCaptureTypes = {}
    /\ ~v.capturesToHand
    /\ ~v.twoBoards
    /\ ~RestrictedMobility(v)
    /\ v.kingType = KING

\* lines 271-277
ShogiStylePromotions(v) ==
    \E pt \in AllPieceTypes : v.promotedPieceType[pt] # NO_PIECE_TYPE

\* lines 279-292
ConnectDirectionsFrom(v, start) ==
    LET d1 == IF v.connectHorizontal THEN Append(start, "EAST") ELSE start
        d2 == IF v.connectVertical THEN Append(d1, "NORTH") ELSE d1
    IN  IF v.connectDiagonal THEN d2 \o <<"NORTH_EAST", "SOUTH_EAST">> ELSE d2

ConnectDirectionsNoClear(v) == ConnectDirectionsFrom(v, v.connect_directions)

ConnectDirections(v) == ConnectDirectionsFrom(v, <<>>)

\* Variant::conclude(), lines 148-295
Conclude(v0, ub) ==
    LET v   == DoubleStepConsistency(v0)
        k   == NnueKing(v)
        off == Offsets(v, k)
        ks  == KingSquares(v, k, ub)
    IN  [v EXCEPT
           !.fastAttacks = FastAttacks(v),
           !.fastAttacks2 = FastAttacks2(v),
           !.nnueKing = k,
           !.nnueUsePockets = NnueUsePockets(v),
           !.pieceSquareIndex = off.square,
           !.pieceHandIndex = off.hand,
           !.kingSquareIndex = ks.tab,
           !.nnueDimensions = ks.n * NnuePieceIndices(v, k),
           !.nnueMaxPieces = NnueMaxPieces(v),
           !.endgameEval = EndgameEval(v),
           !.shogiStylePromotions = ShogiStylePromotions(v),
           !.connect_directions = ConnectDirections(v)]

\* line 207: the assertion holds through the whole offset loop
AssertionHolds(v0) ==
    LET v == DoubleStepConsistency(v0)
    IN  Offsets(v, NnueKing(v)).assertOk


(***************************************************************************)
(* The ruleset record.  Variant's default member initialisers (variant.h)  *)
(* are those of standard chess; derived fields start unset (junk).         *)
(***************************************************************************)
NoChars == [pce \in Pieces |-> " "]
NoRegions == [c \in Color |-> [pt \in AllPieceTypes |-> {}]]
NoSets == [c \in Color |-> {}]
NoPromoted == [pt \in AllPieceTypes |-> NO_PIECE_TYPE]

\* toupper / tolower on the letters the piece symbols use
Upper == [ch \in {"p", "n", "b", "r", "q", "f", "s", "i", "c", "a", "k"} |->
            CASE ch = "p" -> "P" [] ch = "n" -> "N" [] ch = "b" -> "B"
              [] ch = "r" -> "R" [] ch = "q" -> "Q" [] ch = "f" -> "F"
              [] ch = "s" -> "S" [] ch = "i" -> "I" [] ch = "c" -> "C"
              [] ch = "a" -> "A" [] ch = "k" -> "K"]

\* v->reset_pieces()
reset_pieces(v) == [v EXCEPT !.pieceToChar = NoChars, !.pieceTypes = {}]

\* v->add_piece(pt, c): the symbol of both colours, and the type joins the set
add_piece(v, pt, ch) ==
    [v EXCEPT !.pieceToChar = [pce \in Pieces |->
                  IF pce = make_piece(WHITE, pt) THEN Upper[ch]
                  ELSE IF pce = make_piece(BLACK, pt) THEN ch
                  ELSE v.pieceToChar[pce]],
              !.pieceTypes = v.pieceTypes \cup piece_set(pt)]

ChessFen ==
    <<"r", "n", "b", "q", "k", "b", "n", "r", "/", "p", "p", "p", "p", "p",
    "p", "p", "p", "/", "8", "/", "8", "/", "8", "/", "8", "/", "P", "P",
    "P", "P", "P", "P", "P", "P", "/", "R", "N", "B", "Q", "K", "B", "N",
    "R", " ", "w", " ", "K", "Q", "k", "q", " ", "-", " ", "0", " ", "1">>

AtaxxFen ==
    <<"P", "5", "p", "/", "7", "/", "7", "/", "7", "/", "7", "/", "7", "/",
    "p", "5", "P", " ", "w", " ", "0", " ", "1">>

FlipersiFen ==
    <<"8", "/", "8", "/", "8", "/", "8", "/", "8", "/", "8", "/", "8", "/",
    "8", "[", "P", "P", "P", "P", "P", "P", "P", "P", "P", "P", "P", "P",
    "P", "P", "P", "P", "P", "P", "P", "P", "P", "P", "P", "P", "P", "P",
    "P", "P", "P", "P", "P", "P", "p", "p", "p", "p", "p", "p", "p", "p",
    "p", "p", "p", "p", "p", "p", "p", "p", "p", "p", "p", "p", "p", "p",
    "p", "p", "p", "p", "p", "p", "p", "p", "p", "p", "]", " ", "w", " ",
    "0", " ", "1">>

FlipelloFen ==
    <<"8", "/", "8", "/", "8", "/", "3", "p", "P", "3", "/", "3", "P", "p",
    "3", "/", "8", "/", "8", "/", "8", "[", "P", "P", "P", "P", "P", "P",
    "P", "P", "P", "P", "P", "P", "P", "P", "P", "P", "P", "P", "P", "P",
    "P", "P", "P", "P", "P", "P", "P", "P", "P", "P", "P", "P", "p", "p",
    "p", "p", "p", "p", "p", "p", "p", "p", "p", "p", "p", "p", "p", "p",
    "p", "p", "p", "p", "p", "p", "p", "p", "p", "p", "p", "p", "p", "p",
    "p", "p", "]", " ", "w", " ", "0", " ", "1">>

\* the derived fields, which only conclude() writes
DerivedFields ==
    {"fastAttacks", "fastAttacks2", "nnueKing", "nnueUsePockets", "pieceSquareIndex",
     "pieceHandIndex", "kingSquareIndex", "nnueDimensions", "nnueMaxPieces",
     "endgameEval", "shogiStylePromotions", "connect_directions"}

\* the member initialisers of Variant; the derived fields without one hold junk
VariantDefaults(junk) ==
    [pieceToCharTable |-> "-", nnueAlias |-> "",
     maxRank |-> RANK_MAX, maxFile |-> FILE_MAX,
     pieceTypes |-> {}, pieceToChar |-> NoChars, pieceToCharSynonyms |-> NoChars,
     startFen |-> ChessFen,
     mobilityRegion |-> NoRegions,
     promotionPawnTypes |-> [c \in Color |-> {PAWN}],
     promotionPieceTypes |-> [c \in Color |-> {QUEEN, ROOK, BISHOP, KNIGHT}],
     promotedPieceType |-> NoPromoted,
     doubleStep |-> TRUE,
     doubleStepRegion |-> [c \in Color |-> IF c = WHITE THEN RankBB(1) ELSE RankBB(6)],
     castling |-> TRUE, kingType |-> KING,
     cambodianMoves |-> FALSE, diagonalLines |-> FALSE,
     pieceDrops |-> FALSE, capturesToHand |-> FALSE, mustDrop |-> FALSE,
     freeDrops |-> FALSE, seirawanGating |-> FALSE, twoBoards |-> FALSE,
     immobilityIllegal |-> FALSE, mustCapture |-> FALSE,
     enclosingDrop |-> "NO_ENCLOSING", enclosingDropStart |-> {},
     flipEnclosedPieces |-> "NO_ENCLOSING",
     nMoveRule |-> 50,
     checkmateValue |-> -VALUE_MATE, stalemateValue |-> VALUE_DRAW,
     stalematePieceCount |-> FALSE, passOnStalemate |-> FALSE,
     extinctionValue |-> VALUE_NONE, extinctionPieceTypes |-> {},
     extinctionPieceCount |-> 0,
     materialCounting |-> "NO_MATERIAL_COUNTING",
     flagRegion |-> NoSets, checkCounting |-> FALSE, makpongRule |-> FALSE,
     connectN |-> 0, connectHorizontal |-> TRUE, connectVertical |-> TRUE,
     connectDiagonal |-> TRUE,
     blastOnCapture |-> FALSE, petrifyOnCaptureTypes |-> {},
     fastAttacks |-> TRUE, fastAttacks2 |-> TRUE, nnueKing |-> KING,
     nnueUsePockets |-> FALSE,
     pieceSquareIndex |-> [c \in Color |-> [pce \in Pieces |-> junk]],
     pieceHandIndex |-> [c \in Color |-> [pce \in Pieces |-> junk]],
     kingSquareIndex |-> [s \in Squares |-> junk],
     nnueDimensions |-> junk, nnueMaxPieces |-> junk,
     endgameEval |-> FALSE, shogiStylePromotions |-> FALSE,
     connect_directions |-> <<>>]

RawFields == DOMAIN VariantDefaults(0) \ DerivedFields

\* the raw fields of a ruleset, the derived fields of a ruleset
Raw(v) == [f \in RawFields |-> v[f]]
Derived(v) == [f \in DerivedFields |-> v[f]]

\* new Variant(): the defaults with the six chess piece types
NewVariant(junk) ==
    add_piece(add_piece(add_piece(add_piece(add_piece(add_piece(
        VariantDefaults(junk),
        PAWN, "p"), KNIGHT, "n"), BISHOP, "b"), ROOK, "r"), QUEEN, "q"), KING, "k")

\* Variant::init(): reopens a ruleset for mutation; returns the instance
init(v) == v

(***************************************************************************)
(* The factory functions of the built-in catalog, lines 36-127.            *)
(***************************************************************************)
variant_base(junk) == NewVariant(junk)

chess_variant_base(junk) ==
    [init(variant_base(junk)) EXCEPT
        !.pieceToCharTable = "PNBRQ................Kpnbrq................k"]

chess_variant(junk) == [init(chess_variant_base(junk)) EXCEPT !.nnueAlias = "nn-"]

fairy_variant(junk) ==
    add_piece(add_piece(init(chess_variant_base(junk)), SILVER, "s"), FERS, "f")

ataxx_variant(junk) ==
    LET v0 == [init(chess_variant_base(junk)) EXCEPT
                  !.pieceToCharTable = "P.................p.................",
                  !.maxRank = 6, !.maxFile = 6]
        v1 == add_piece(reset_pieces(v0), CUSTOM_PIECE_1, "p")
    IN  [v1 EXCEPT !.startFen = AtaxxFen,
                   !.pieceDrops = TRUE, !.doubleStep = FALSE, !.castling = FALSE,
                   !.immobilityIllegal = FALSE, !.stalemateValue = -VALUE_MATE,
                   !.stalematePieceCount = TRUE, !.passOnStalemate = TRUE,
                   !.enclosingDrop = "ATAXX", !.flipEnclosedPieces = "ATAXX",
                   !.materialCounting = "UNWEIGHTED_MATERIAL",
                   !.nMoveRule = 0, !.freeDrops = TRUE]

flipersi_variant(junk) ==
    LET v0 == [init(chess_variant_base(junk)) EXCEPT
                  !.pieceToCharTable = "P.................p.................",
                  !.maxRank = 7, !.maxFile = 7]
        v1 == add_piece(reset_pieces(v0), IMMOBILE_PIECE, "p")
    IN  [v1 EXCEPT !.startFen = FlipersiFen,
                   !.pieceDrops = TRUE, !.doubleStep = FALSE, !.castling = FALSE,
                   !.immobilityIllegal = FALSE, !.stalemateValue = -VALUE_MATE,
                   !.stalematePieceCount = TRUE, !.passOnStalemate = FALSE,
                   !.enclosingDrop = "REVERSI",
                   !.enclosingDropStart = {make_square(3, 3), make_square(4, 3),
                                           make_square(3, 4), make_square(4, 4)},
                   !.flipEnclosedPieces = "REVERSI",
                   !.materialCounting = "UNWEIGHTED_MATERIAL"]

flipello_variant(junk) ==
    [init(flipersi_variant(junk)) EXCEPT
        !.startFen = FlipelloFen, !.passOnStalemate = TRUE]


(***************************************************************************)
(* Bounds of the model.                                                    *)
(***************************************************************************)
MaxSections == 2    \* sections read, over all parse_istream passes
MaxAdds == 1        \* direct calls of VariantMap::add
MaxCalls == 2       \* consecutive conclude() calls on an unchanged ruleset
MaxReopens == 1     \* raw-field changes between two conclude() calls

(***************************************************************************)
(* State.  Registry and parser:                                            *)
(*   variants     the registry, name -> pointer (std::map)                 *)
(*   heap         pointer -> ruleset, the live Variant objects             *)
(*   pc           "idle", "parsing" (inside parse_istream), "done"         *)
(*   doCheck      the template argument DoCheck of the running pass        *)
(*   varsToErase  the pass's list of transient names                       *)
(*   sect         parse_istream's locals variant, variant_template, attribs*)
(*   cerr         the diagnostics the last step wrote to std::cerr         *)
(*   last         the last registry operation: its kind, name, the pointer *)
(*                it created (0: none), the pointer the name had before    *)
(*   atStart      the registry and the live pointers when the pass began   *)
(*   added        the names the running pass handed to add()               *)
(*   nSections, nFailed, nAdds   counters                                  *)
(* Derivation of a single ruleset:                                         *)
(*   ruleset      the Variant conclude() is called on                      *)
(*   before       the ruleset as it was before the last conclude() call    *)
(*   calls, reopens   conclude() calls made, raw-field changes made        *)
(*   ub           the outcome of testing a bit outside the 64-bit board    *)
(*   asserted     the assertion of line 207 held in every call so far      *)
(***************************************************************************)
VARIABLES variants, heap, pc, doCheck, varsToErase, sect, cerr, last,
          atStart, added, nSections, nFailed, nAdds,
          ruleset, before, calls, reopens, ub, asserted

regVars == <<variants, heap, pc, doCheck, varsToErase, sect, cerr, last,
             atStart, added, nSections, nFailed, nAdds>>
conVars == <<ruleset, before, calls, reopens, ub, asserted>>
vars == <<regVars, conVars>>

EmptyMap == [x \in {} |-> 0]
Range(f) == {f[x] : x \in DOMAIN f}
Restrict(f, S) == [x \in S |-> f[x]]

\* operator new: a pointer no live object has
Alloc(h) == CHOOSE p \in 1..(Cardinality(DOMAIN h) + 1) :
               /\ p \notin DOMAIN h
               /\ \A q \in 1..(p - 1) : q \in DOMAIN h

\* the heap with object p set to val (created if new)
Store(h, p, val) == [q \in DOMAIN h \cup {p} |-> IF q = p THEN val ELSE h[q]]

\* delete p
Free(h, p) == Restrict(h, DOMAIN h \ {p})

(***************************************************************************)
(* VariantMap, lines 378-393                                               *)
(***************************************************************************)
\* line 379: std::map::insert(pair) keeps an entry the key already has
MapInsertOverwrite(m, key, val) ==
    [k \in DOMAIN m \cup {key} |-> IF k = key THEN val ELSE m[k]]

MapInsert(m, key, val) ==
    IF key \in DOMAIN m THEN m
    ELSE [k \in DOMAIN m \cup {key} |-> IF k = key THEN val ELSE m[k]]

\* VariantMap::add(s, v), lines 378-380: conclude *v, then insert
VmAdd(m, h, s, p) ==
    [variants |-> MapInsert(m, s, p),
     heap |-> Store(h, p, Conclude(h[p], FALSE))]

\* VariantMap::clear_all(), lines 382-386
VmClearAll(m, h) ==
    [variants |-> EmptyMap, heap |-> Restrict(h, DOMAIN h \ Range(m))]

\* add(name, factory()): the caller allocates the ruleset, add registers it
AddNew(st, s, val) ==
    LET p == Alloc(st.heap)
    IN  VmAdd(st.variants, Store(st.heap, p, val), s, p)

\* VariantMap::init(), lines 133-144
VmInit(m, h) ==
    LET s0 == [variants |-> m, heap |-> h]
        s1 == AddNew(s0, <<"chess">>, chess_variant(0))
        s2 == AddNew(s1, <<"normal">>, chess_variant(0))
        s3 == AddNew(s2, <<"fairy">>, fairy_variant(0))
        s4 == AddNew(s3, <<"ataxx">>, ataxx_variant(0))
        s5 == AddNew(s4, <<"flipersi">>, flipersi_variant(0))
    IN  AddNew(s5, <<"flipello">>, flipello_variant(0))

(***************************************************************************)
(* parse_istream, lines 300-357.  Text is a sequence of tokens: a token is *)
(* a run of characters without ':', '=', ' ', ';', '#' or CR, or one of    *)
(* these characters.  A header is the text between '[' and ']', a body the *)
(* lines up to the next '['.                                               *)
(***************************************************************************)
RECURSIVE FindToken(_, _, _)
\* the first position of token t in text at or after `from`, or 0
FindToken(text, t, from) ==
    IF from > Len(text) THEN 0
    ELSE IF text[from] = t THEN from
    ELSE FindToken(text, t, from + 1)

\* line 309: getline(header, variant, ':') then getline(rest, variant_template);
\* an empty remainder makes the second getline fail, line 310
SplitHeader(header) ==
    LET p == FindToken(header, ":", 1)
    IN  IF p = 0
        THEN [variant |-> header, variant_template |-> <<>>]
        ELSE [variant |-> SubSeq(header, 1, p - 1),
              variant_template |-> SubSeq(header, p + 1, Len(header))]

RECURSIVE TrimRight(_)
\* line 324: key.erase(key.find_last_not_of(" ") + 1)
TrimRight(text) ==
    IF text # <<>> /\ text[Len(text)] = " "
    THEN TrimRight(SubSeq(text, 1, Len(text) - 1))
    ELSE text

RECURSIVE SkipWs(_)
\* line 323: >> std::ws
SkipWs(text) ==
    IF text # <<>> /\ IsSpace(Head(text)) THEN SkipWs(Tail(text)) ELSE text

\* lines 316-317: a trailing carriage return is dropped
StripCR(line) ==
    IF line # <<>> /\ line[Len(line)] = "\r"
    THEN SubSeq(line, 1, Len(line) - 1)
    ELSE line

\* line 319
IsComment(line) == line # <<>> /\ Head(line) \in {";", "#"}

\* line 321: the line strict mode reports as invalid syntax
IsMalformed(line) ==
    ~IsComment(line) /\ line # <<>> /\ FindToken(line, "=", 1) = 0

\* lines 323-324: the attribute a line sets, as <<key, value>>, or <<>>
LineAttrib(line) ==
    LET p     == FindToken(line, "=", 1)
        key   == SubSeq(line, 1, p - 1)
        value == SkipWs(SubSeq(line, p + 1, Len(line)))
    IN  IF IsComment(line) \/ p = 0 \/ value = <<>> \/ key = <<>>
        THEN <<>>
        ELSE <<TrimRight(key), value>>

RECURSIVE ReadAttribs(_, _)
\* lines 313-326: Config attribs; a later line overrides an earlier one
ReadAttribs(body, attribs) ==
    IF body = <<>> THEN attribs
    ELSE LET kv == LineAttrib(StripCR(Head(body)))
         IN  ReadAttribs(Tail(body),
                IF kv = <<>> THEN attribs
                ELSE [k \in DOMAIN attribs \cup {kv[1]} |->
                         IF k = kv[1] THEN kv[2] ELSE attribs[k]])

RECURSIVE SyntaxErrors(_)
\* lines 321-322: one diagnostic per malformed line
SyntaxErrors(body) ==
    IF body = <<>> THEN <<>>
    ELSE (IF IsMalformed(StripCR(Head(body)))
          THEN <<[msg |-> "Invalid syntax", arg |-> StripCR(Head(body))]>>
          ELSE <<>>) \o SyntaxErrors(Tail(body))

(***************************************************************************)
(* VariantParser<DoCheck>(attribs).parse(v): the attribute applier.  It    *)
(* sets the raw fields the keys name and leaves every other field alone.   *)
(***************************************************************************)
BoolValue == [t \in {<<"true">>, <<"false">>} |-> t = <<"true">>]
SizeValue == [t \in {<<"3">>, <<"8">>, <<"12">>} |->
                 CASE t = <<"3">> -> 2 [] t = <<"8">> -> 7 [] t = <<"12">> -> 11]
RegionValue == [t \in {<<"-">>, <<"*">>, <<"*", "3">>} |->
                 CASE t = <<"-">> -> {} [] t = <<"*">> -> Squares
                   [] t = <<"*", "3">> -> RankBB(2)]

Has(attribs, key, values) ==
    <<key>> \in DOMAIN attribs /\ attribs[<<key>>] \in DOMAIN values

SetBool(attribs, key, old) ==
    IF Has(attribs, key, BoolValue) THEN BoolValue[attribs[<<key>>]] ELSE old

SetSize(attribs, key, old) ==
    IF Has(attribs, key, SizeValue) THEN SizeValue[attribs[<<key>>]] ELSE old

SetRegion(attribs, key, old) ==
    IF Has(attribs, key, RegionValue) THEN RegionValue[attribs[<<key>>]] ELSE old

ApplyAttribs(attribs, v) ==
    [v EXCEPT
       !.maxFile = SetSize(attribs, "maxFile", v.maxFile),
       !.maxRank = SetSize(attribs, "maxRank", v.maxRank),
       !.mustDrop = SetBool(attribs, "mustDrop", v.mustDrop),
       !.pieceDrops = SetBool(attribs, "pieceDrops", v.pieceDrops),
       !.capturesToHand = SetBool(attribs, "capturesToHand", v.capturesToHand),
       !.doubleStep = SetBool(attribs, "doubleStep", v.doubleStep),
       !.doubleStepRegion = [c \in Color |->
            SetRegion(attribs,
                      IF c = WHITE THEN "doubleStepRegionWhite"
                      ELSE "doubleStepRegionBlack",
                      v.doubleStepRegion[c])]]

\* line 339
FitsAlways(v) == TRUE

Fits(v) == v.maxFile <= FILE_MAX /\ v.maxRank <= RANK_MAX

\* line 329
NameExistsNever(m, name) == FALSE

NameExists(m, name) == name \in DOMAIN m

\* line 331
TemplateMissing(m, tmpl) == tmpl # <<>> /\ tmpl \notin DOMAIN m

\* line 337: where the copy `new Variant(*template)` lives
CopyTargetAlias(h, src) == src

CopyTarget(h, src) == Alloc(h)

\* lines 344-345
PushTransientFirstOnly(vte, check, name) ==
    IF check /\ vte = <<>> THEN Append(vte, name) ELSE vte

PushTransient(vte, check, name) == IF check THEN Append(vte, name) ELSE vte

RECURSIVE Cleanup(_, _, _)
\* lines 352-356: delete and erase every transient ruleset
Cleanup(m, h, vte) ==
    IF vte = <<>> THEN [variants |-> m, heap |-> h]
    ELSE LET name == Head(vte)
         IN  Cleanup(Restrict(m, DOMAIN m \ {name}), Free(h, m[name]), Tail(vte))

(***************************************************************************)
(* Inputs: the sections a stream may hold and the rulesets a caller adds.  *)
(***************************************************************************)
BodyEmpty == <<>>
BodyMustDrop == << <<"mustDrop", "=", "true">> >>
BodyTooWide ==
    << <<";", " ", "wide">>, <<"maxFile", " ", "=", " ", "12", "\r">>, <<"garbage">> >>
BodyNoDoubleStep == << <<"doubleStep", "=", "false">> >>
BodyNoRegions ==
    << <<"doubleStepRegionWhite", "=", "-">>,
       <<"doubleStepRegionBlack", " ", "=", "-">>, <<>> >>

Sections ==
    { [header |-> <<"A">>, body |-> BodyEmpty],
      [header |-> <<"A">>, body |-> BodyTooWide],
      [header |-> <<"B", ":", "A">>, body |-> BodyMustDrop],
      [header |-> <<"B", ":", "A">>, body |-> BodyNoDoubleStep],
      [header |-> <<"B", ":", "A">>, body |-> BodyNoRegions],
      [header |-> <<"B", ":", "chess">>, body |-> BodyTooWide],
      [header |-> <<"chess", ":", "nosuch">>, body |-> BodyEmpty] }

AddInputs ==
    { [name |-> <<"A">>, val |-> ataxx_variant(0)],
      [name |-> <<"chess">>, val |-> ataxx_variant(0)] }

NoSect == [variant |-> <<>>, variant_template |-> <<>>, attribs |-> EmptyMap]
NoLast == [op |-> "none", name |-> <<>>, ptr |-> 0, old |-> 0]
NoRuleset == <<>>
NoStart == [variants |-> EmptyMap, live |-> {}]

PtrOf(m, name) == IF name \in DOMAIN m THEN m[name] ELSE 0

(***************************************************************************)
(* Actions of the registry and the parser                                  *)
(***************************************************************************)
ConIdle == UNCHANGED conVars

\* outside a pass the locals of parse_istream do not exist
PassOver ==
    /\ doCheck' = FALSE
    /\ varsToErase' = <<>>
    /\ sect' = NoSect
    /\ atStart' = NoStart
    /\ added' = {}
    /\ nFailed' = 0

\* VariantMap::init(), called at startup before any other operation
InitCatalog ==
    /\ last = NoLast
    /\ LET r == VmInit(variants, heap)
       IN  variants' = r.variants /\ heap' = r.heap
    /\ pc' = "idle"
    /\ last' = [NoLast EXCEPT !.op = "init"]
    /\ cerr' = <<>>
    /\ UNCHANGED <<doCheck, varsToErase, sect, atStart, added, nSections, nFailed, nAdds>>
    /\ ConIdle

\* variants.add(name, v) by a caller holding a new ruleset
AddDirect(in) ==
    /\ pc # "parsing" /\ nAdds < MaxAdds
    /\ LET p == Alloc(heap)
           r == VmAdd(variants, Store(heap, p, in.val), in.name, p)
       IN  /\ variants' = r.variants
           /\ heap' = r.heap
           /\ last' = [op |-> "add", name |-> in.name, ptr |-> p,
                       old |-> PtrOf(variants, in.name)]
    /\ nAdds' = nAdds + 1
    /\ pc' = "idle"
    /\ cerr' = <<>>
    /\ PassOver
    /\ UNCHANGED nSections
    /\ ConIdle

\* variants.clear_all()
ClearAll ==
    /\ pc # "parsing" /\ variants # EmptyMap
    /\ LET r == VmClearAll(variants, heap)
       IN  variants' = r.variants /\ heap' = r.heap
    /\ last' = [NoLast EXCEPT !.op = "clear_all"]
    /\ pc' = "idle"
    /\ cerr' = <<>>
    /\ PassOver
    /\ UNCHANGED <<nSections, nAdds>>
    /\ ConIdle

\* parse_istream<check>(file) is entered: lines 302-305
ParseBegin(check) ==
    /\ pc # "parsing" /\ nSections < MaxSections
    /\ pc' = "parsing"
    /\ doCheck' = check
    /\ varsToErase' = <<>>
    /\ sect' = NoSect
    /\ atStart' = [variants |-> variants, live |-> DOMAIN heap]
    /\ added' = {}
    /\ nFailed' = 0
    /\ last' = [NoLast EXCEPT !.op = "begin"]
    /\ cerr' = <<>>
    /\ UNCHANGED <<variants, heap, nSections, nAdds>>
    /\ ConIdle

\* one iteration of the loop of lines 306-350 on the next section
ParseSection(in) ==
    /\ pc = "parsing" /\ nSections < MaxSections
    /\ nSections' = nSections + 1
    /\ LET hd      == SplitHeader(in.header)
           attribs == ReadAttribs(in.body, EmptyMap)
           syntax  == IF doCheck THEN SyntaxErrors(in.body) ELSE <<>>
           name    == hd.variant
           tmpl    == hd.variant_template
       IN  /\ sect' = [variant |-> name, variant_template |-> tmpl, attribs |-> attribs]
           /\ IF NameExists(variants, name)
              THEN /\ cerr' = Append(syntax, [msg |-> "already exists", arg |-> name])
                   /\ last' = [op |-> "exists", name |-> name, ptr |-> 0,
                               old |-> variants[name]]
                   /\ nFailed' = nFailed + 1
                   /\ UNCHANGED <<variants, heap, varsToErase, added>>
              ELSE IF TemplateMissing(variants, tmpl)
              THEN /\ cerr' = Append(syntax, [msg |-> "template does not exist", arg |-> tmpl])
                   /\ last' = [op |-> "no_template", name |-> name, ptr |-> 0, old |-> 0]
                   /\ nFailed' = nFailed + 1
                   /\ UNCHANGED <<variants, heap, varsToErase, added>>
              ELSE LET p  == IF tmpl # <<>> THEN CopyTarget(heap, variants[tmpl])
                             ELSE Alloc(heap)
                       v0 == IF tmpl # <<>> THEN init(heap[variants[tmpl]])
                             ELSE NewVariant(0)
                       h1 == Store(heap, p, ApplyAttribs(attribs, v0))
                   IN  /\ cerr' = IF doCheck
                                  THEN Append(syntax, [msg |-> "Parsing variant", arg |-> name])
                                  ELSE syntax
                       /\ IF Fits(h1[p])
                          THEN LET r == VmAdd(variants, h1, name, p)
                               IN  /\ variants' = r.variants
                                   /\ heap' = r.heap
                                   /\ varsToErase' = PushTransient(varsToErase, doCheck, name)
                                   /\ added' = added \cup {name}
                                   /\ last' = [op |-> "added", name |-> name, ptr |-> p, old |-> 0]
                                   /\ UNCHANGED nFailed
                          ELSE /\ heap' = Free(h1, p)
                               /\ last' = [op |-> "discarded", name |-> name, ptr |-> 0, old |-> 0]
                               /\ nFailed' = nFailed + 1
                               /\ UNCHANGED <<variants, varsToErase, added>>
    /\ UNCHANGED <<pc, doCheck, atStart, nAdds>>
    /\ ConIdle

\* the stream is exhausted: lines 351-357
ParseEnd ==
    /\ pc = "parsing"
    /\ LET r == Cleanup(variants, heap, varsToErase)
       IN  variants' = r.variants /\ heap' = r.heap
    /\ pc' = "done"
    /\ cerr' = <<>>
    /\ UNCHANGED <<doCheck, varsToErase, sect, last, atStart, added, nSections, nFailed,
                   nAdds>>
    /\ ConIdle

Init ==
    /\ variants = EmptyMap
    /\ heap = EmptyMap
    /\ pc = "idle"
    /\ doCheck = FALSE
    /\ varsToErase = <<>>
    /\ sect = NoSect
    /\ cerr = <<>>
    /\ last = NoLast
    /\ atStart = NoStart
    /\ added = {}
    /\ nSections = 0 /\ nFailed = 0 /\ nAdds = 0
    /\ ruleset = NoRuleset /\ before = NoRuleset
    /\ calls = 0 /\ reopens = 0 /\ ub = FALSE /\ asserted = TRUE

Next ==
    \/ InitCatalog
    \/ \E in \in AddInputs : AddDirect(in)
    \/ ClearAll
    \/ \E check \in BOOLEAN : ParseBegin(check)
    \/ \E in \in Sections : ParseSection(in)
    \/ ParseEnd

Spec == Init /\ [][Next]_vars

(***************************************************************************)
(* Derivation of one ruleset: conclude() called on rulesets whose raw      *)
(* fields are drawn from the tables below, called again, and called after  *)
(* a raw field was changed (a reopened template copy).                     *)
(***************************************************************************)
PieceChar == [pt \in PieceTypes |->
    CASE pt = PAWN -> "p" [] pt = KNIGHT -> "n" [] pt = BISHOP -> "b"
      [] pt = ROOK -> "r" [] pt = QUEEN -> "q" [] pt = FERS -> "f"
      [] pt = SILVER -> "s" [] pt = IMMOBILE_PIECE -> "i" [] pt = COMMONER -> "c"
      [] pt = CUSTOM_PIECE_1 -> "a" [] pt = KING -> "k"]

\* reset_pieces() followed by add_piece(pt, PieceChar[pt]) for every pt of ps
PiecesPatch(ps) ==
    << [f |-> "pieceTypes", val |-> ps],
       [f |-> "pieceToChar", val |-> [pce \in Pieces |->
            IF pce[2] \in ps
            THEN (IF pce[1] = WHITE THEN Upper[PieceChar[pce[2]]] ELSE PieceChar[pce[2]])
            ELSE " "]] >>

RECURSIVE Patch(_, _)
\* the ruleset with the raw fields of the patch list assigned
Patch(v, patches) ==
    IF patches = <<>> THEN v
    ELSE Patch([v EXCEPT ![Head(patches).f] = Head(patches).val], Tail(patches))

OnKingAndCommoner(white, black) ==
    [c \in Color |-> [pt \in AllPieceTypes |->
        IF pt \in {KING, COMMONER} THEN (IF c = WHITE THEN white ELSE black) ELSE {}]]

DimPieces ==
    << PiecesPatch({KING, PAWN}), PiecesPatch({PAWN, COMMONER, CUSTOM_PIECE_1}),
       PiecesPatch({PAWN}), PiecesPatch({KING}), PiecesPatch({COMMONER}),
       PiecesPatch({PAWN, COMMONER, KING}), PiecesPatch({}) >>

FenList ==
    << <<"c", "k", "p", "/", "P", "K", "C", " ", "w", " ", "-", " ", "0", " ", "1">>,
       <<"k", "k", "1", "c", "/", "P", "K", "C", " ", "w">>,
       <<"c", "p", "/", "P", "C", "[", "K", "k", "]", " ", "w">>,
       <<"p", "p", "/", "P", "P", " ", "w">>,
       <<"c", "k", "C", "K">>,
       <<" ", "c", "k", "C", "K">>,
       <<"C", "C", "k", "/", "K", "c", " ", "w">> >>

DimFen == [i \in 1..Len(FenList) |-> << [f |-> "startFen", val |-> FenList[i]] >>]

DimExtinction ==
    << <<>>,
       << [f |-> "extinctionPieceTypes", val |-> {COMMONER, PAWN}] >>,
       << [f |-> "extinctionPieceTypes", val |-> {COMMONER}],
          [f |-> "extinctionPieceCount", val |-> 1] >> >>

DimPromotion ==
    << <<>>,
       << [f |-> "promotionPawnTypes",
           val |-> [c \in Color |-> IF c = BLACK THEN {PAWN, COMMONER} ELSE {PAWN}]] >>,
       << [f |-> "promotionPieceTypes",
           val |-> [c \in Color |-> IF c = WHITE THEN {QUEEN, KING} ELSE {QUEEN}]] >>,
       << [f |-> "promotedPieceType",
           val |-> [pt \in AllPieceTypes |-> IF pt = PAWN THEN COMMONER ELSE NO_PIECE_TYPE]] >>,
       << [f |-> "promotedPieceType",
           val |-> [pt \in AllPieceTypes |-> IF pt = PAWN THEN QUEEN ELSE NO_PIECE_TYPE]] >> >>

DimMobility ==
    << <<>>,
       << [f |-> "mobilityRegion", val |-> OnKingAndCommoner({0, 1, 2}, {})] >>,
       << [f |-> "mobilityRegion", val |-> OnKingAndCommoner({0, 1, 8, 9}, {62, 63})] >>,
       << [f |-> "mobilityRegion", val |-> OnKingAndCommoner({0}, {0})] >> >>

DimGeometry ==
    << <<>>,
       << [f |-> "maxFile", val |-> 2], [f |-> "maxRank", val |-> 3] >>,
       << [f |-> "maxFile", val |-> 8], [f |-> "maxRank", val |-> 6] >>,
       << [f |-> "maxFile", val |-> 8], [f |-> "maxRank", val |-> 7] >>,
       << [f |-> "maxFile", val |-> 0], [f |-> "maxRank", val |-> 8] >> >>

DimPockets ==
    << <<>>,
       << [f |-> "pieceDrops", val |-> TRUE] >>,
       << [f |-> "pieceDrops", val |-> TRUE], [f |-> "mustDrop", val |-> TRUE] >>,
       << [f |-> "pieceDrops", val |-> TRUE], [f |-> "mustDrop", val |-> TRUE],
          [f |-> "capturesToHand", val |-> TRUE] >>,
       << [f |-> "seirawanGating", val |-> TRUE] >> >>

DimDoubleStep == << TRUE, FALSE >>
DimRegionWhite == << {}, RankBB(1), {8} >>
DimRegionBlack == << {}, RankBB(6) >>

DimRules ==
    << <<>>,
       << [f |-> "extinctionValue", val |-> -VALUE_MATE] >>,
       << [f |-> "checkmateValue", val |-> VALUE_MATE] >>,
       << [f |-> "stalemateValue", val |-> -VALUE_MATE] >>,
       << [f |-> "materialCounting", val |-> "UNWEIGHTED_MATERIAL"] >>,
       << [f |-> "flagRegion", val |-> [c \in Color |-> IF c = WHITE THEN RankBB(7) ELSE {}]] >>,
       << [f |-> "flagRegion", val |-> [c \in Color |-> IF c = BLACK THEN RankBB(0) ELSE {}]] >>,
       << [f |-> "mustCapture", val |-> TRUE] >>,
       << [f |-> "checkCounting", val |-> TRUE] >>,
       << [f |-> "makpongRule", val |-> TRUE] >>,
       << [f |-> "connectN", val |-> 4] >>,
       << [f |-> "blastOnCapture", val |-> TRUE] >>,
       << [f |-> "petrifyOnCaptureTypes", val |-> {PAWN}] >>,
       << [f |-> "capturesToHand", val |-> TRUE] >>,
       << [f |-> "twoBoards", val |-> TRUE] >>,
       << [f |-> "mobilityRegion",
           val |-> [c \in Color |-> [pt \in AllPieceTypes |->
                      IF c = BLACK /\ pt = PAWN THEN RankBB(6) ELSE {}]]] >>,
       << [f |-> "kingType", val |-> COMMONER] >>,
       << [f |-> "cambodianMoves", val |-> TRUE] >>,
       << [f |-> "diagonalLines", val |-> TRUE] >>,
       PiecesPatch({PAWN, SILVER, KING}),
       PiecesPatch({PAWN, QUEEN, FERS, KING}),
       PiecesPatch({PAWN, CUSTOM_PIECE_1, KING}) >>

DimConnect == BOOLEAN \X BOOLEAN \X BOOLEAN

JunkValues == {0, 5}

\* the raw-field changes a reopened ruleset receives before it is concluded again
Reopenings ==
    << << [f |-> "maxFile", val |-> 2] >>,
       << [f |-> "mobilityRegion", val |-> OnKingAndCommoner({0, 1, 8, 9}, {62, 63})],
          [f |-> "connectDiagonal", val |-> FALSE] >>,
       PiecesPatch({PAWN, COMMONER, KING}) \o << [f |-> "twoBoards", val |-> TRUE] >> >>

\* the rulesets conclude() is called on
AnchorInputs ==
    { Patch(NewVariant(0), DimPieces[a] \o DimFen[b] \o DimExtinction[c] \o DimPromotion[d]) :
        a \in 1..Len(DimPieces), b \in 1..Len(DimFen),
        c \in 1..Len(DimExtinction), d \in 1..Len(DimPromotion) }

BoardInputs ==
    { Patch(NewVariant(j[1]),
            DimPieces[a] \o DimFen[1] \o DimExtinction[2] \o DimMobility[b]
              \o DimGeometry[c] \o DimPockets[j[2]]) :
        a \in 1..3, b \in 1..Len(DimMobility), c \in 1..Len(DimGeometry),
        j \in JunkValues \X {1, 2} }

DoubleStepInputs ==
    { Patch(NewVariant(0),
            << [f |-> "doubleStep", val |-> DimDoubleStep[a]],
               [f |-> "doubleStepRegion",
                val |-> [c \in Color |-> IF c = WHITE THEN DimRegionWhite[b]
                                         ELSE DimRegionBlack[d]]] >>) :
        a \in 1..Len(DimDoubleStep), b \in 1..Len(DimRegionWhite),
        d \in 1..Len(DimRegionBlack) }

RuleInputs ==
    { Patch(NewVariant(j),
            DimRules[a] \o << [f |-> "connectHorizontal", val |-> b[1]],
                              [f |-> "connectVertical", val |-> b[2]],
                              [f |-> "connectDiagonal", val |-> b[3]] >>) :
        a \in 1..Len(DimRules), b \in DimConnect, j \in JunkValues }

PocketInputs ==
    { Patch(NewVariant(0), DimPieces[a] \o DimPockets[b]) :
        a \in {1, 3}, b \in 1..Len(DimPockets) }

CatalogInputs ==
    { chess_variant(0), fairy_variant(0), ataxx_variant(5), flipersi_variant(0),
      flipello_variant(5) }

ConcludeInputs ==
    AnchorInputs \cup BoardInputs \cup DoubleStepInputs \cup RuleInputs
      \cup PocketInputs \cup CatalogInputs

\* the board is one on which every bit test of line 230-231 is defined
InBounds(v) == v.maxFile <= FILE_MAX /\ v.maxRank <= RANK_MAX

RegIdle == UNCHANGED regVars

\* v->conclude()
ConcludeCall ==
    /\ calls < MaxCalls
    /\ before' = ruleset
    /\ ruleset' = Conclude(ruleset, ub)
    /\ asserted' = (asserted /\ AssertionHolds(ruleset))
    /\ calls' = calls + 1
    /\ UNCHANGED <<reopens, ub>>
    /\ RegIdle

\* a concluded ruleset is reopened and raw fields are assigned
Reopen(i) ==
    /\ calls >= 1 /\ reopens < MaxReopens
    /\ ruleset' = Patch(ruleset, Reopenings[i])
    /\ reopens' = reopens + 1
    /\ calls' = 0
    /\ UNCHANGED <<before, ub, asserted>>
    /\ RegIdle

InitConclude ==
    /\ variants = EmptyMap /\ heap = EmptyMap /\ pc = "idle" /\ doCheck = FALSE
    /\ varsToErase = <<>> /\ sect = NoSect /\ cerr = <<>> /\ last = NoLast
    /\ atStart = NoStart /\ added = {}
    /\ nSections = 0 /\ nFailed = 0 /\ nAdds = 0
    /\ ruleset \in ConcludeInputs
    /\ ub \in (IF InBounds(ruleset) THEN {FALSE} ELSE BOOLEAN)
    /\ before = NoRuleset
    /\ calls = 0 /\ reopens = 0 /\ asserted = TRUE

NextConclude ==
    \/ ConcludeCall
    \/ \E i \in 1..Len(Reopenings) : Reopen(i)

SpecConclude == InitConclude /\ [][NextConclude]_vars

(***************************************************************************)
(* Properties of the registry and the parser (checked under Spec)          *)
(***************************************************************************)
Reported(log, msg, arg) == \E i \in 1..Len(log) : log[i].msg = msg /\ log[i].arg = arg

\* the step is one iteration of parse_istream's section loop
SectionStep == pc = "parsing" /\ nSections' = nSections + 1

\* the ruleset a section builds before conclude(): the template's copy (or the
\* default ruleset) with the section's attributes applied
Built(m, h, s) ==
    ApplyAttribs(s.attribs,
                 IF s.variant_template # <<>> THEN h[m[s.variant_template]]
                 ELSE NewVariant(0))

InExtent(v) == v.maxFile <= 7 /\ v.maxRank <= 7

\* the raw fields a key of a section assigns
KeyFields(keys) ==
    {f \in RawFields : <<f>> \in keys}
      \cup (IF <<"doubleStepRegionWhite">> \in keys /\ <<"doubleStepRegionBlack">> \in keys
            THEN {"doubleStepRegion"} ELSE {})

\* C1: a strict pass ends with the registry (names, pointers, live objects)
\* as it was when the pass began, every name it registered gone; a normal
\* pass ends with every name it registered still in the registry.
C1_PassEnd ==
    pc = "done" =>
        IF doCheck
        THEN /\ variants = atStart.variants
             /\ DOMAIN heap = atStart.live
             /\ added \cap DOMAIN variants = {}
        ELSE /\ added \subseteq DOMAIN variants
             /\ DOMAIN variants = DOMAIN atStart.variants \cup added
             /\ \A n \in DOMAIN atStart.variants : variants[n] = atStart.variants[n]

\* a strict pass that registered A and then B from template A has ended
C1_Witness ==
    /\ pc = "done" /\ doCheck
    /\ sect.variant = <<"B">> /\ sect.variant_template = <<"A">>
    /\ {<<"A">>, <<"B">>} \subseteq added
    /\ last.op = "added"

\* C2 as stated: add() under a registered name makes the name yield the
\* ruleset passed to the later add.
C2_Overwrites ==
    (last.op = "add" /\ last.old # 0) => variants[last.name] = last.ptr

\* C2 amended: add() under a registered name leaves the name on the ruleset
\* registered first; the later ruleset is concluded but not registered. Under
\* a fresh name the ruleset passed is registered.
C2_KeepsFirst ==
    last.op = "add" =>
        IF last.old # 0
        THEN /\ variants[last.name] = last.old
             /\ last.ptr \notin Range(variants)
             /\ last.ptr \in DOMAIN heap
        ELSE variants[last.name] = last.ptr

\* add() was called with a name that was registered
C2_Witness ==
    /\ last.op = "add" /\ last.old # 0
    /\ last.name \in DOMAIN variants
    /\ heap[last.ptr].nnueDimensions # heap[last.old].nnueDimensions

\* C3 as stated: a section whose template is not registered adds no entry and
\* the missing-template diagnostic is reported; with the template registered,
\* a fresh name and in-bounds geometry, the section is registered.
C3_MissingTemplateReported ==
    [][SectionStep =>
        LET name == sect'.variant
            tmpl == sect'.variant_template
        IN  /\ (tmpl # <<>> /\ tmpl \notin DOMAIN variants) =>
                  /\ variants' = variants
                  /\ Reported(cerr', "template does not exist", tmpl)
            /\ (tmpl # <<>> /\ tmpl \in DOMAIN variants /\ name \notin DOMAIN variants
                  /\ InExtent(Built(variants, heap, sect'))) =>
                  name \in DOMAIN variants']_vars

\* C3 amended: a section whose template is not registered adds no entry; the
\* missing-template diagnostic is reported when the section's own name is
\* not registered (otherwise the name collision is reported instead). With
\* the template registered, a fresh name and in-bounds geometry, the section
\* is registered.
C3_TemplateOrder ==
    [][SectionStep =>
        LET name == sect'.variant
            tmpl == sect'.variant_template
        IN  /\ (tmpl # <<>> /\ tmpl \notin DOMAIN variants) =>
                  /\ variants' = variants
                  /\ IF name \in DOMAIN variants
                     THEN /\ Reported(cerr', "already exists", name)
                          /\ ~Reported(cerr', "template does not exist", tmpl)
                     ELSE Reported(cerr', "template does not exist", tmpl)
            /\ (tmpl # <<>> /\ tmpl \in DOMAIN variants /\ name \notin DOMAIN variants
                  /\ InExtent(Built(variants, heap, sect'))) =>
                  /\ name \in DOMAIN variants'
                  /\ variants'[name] \in DOMAIN heap']_vars

\* section [B:A] was processed with A not registered
C3_Witness ==
    /\ pc = "parsing" /\ last.op = "no_template"
    /\ sect.variant = <<"B">> /\ sect.variant_template = <<"A">>
    /\ <<"A">> \notin DOMAIN variants /\ <<"B">> \notin DOMAIN variants
    /\ Reported(cerr, "template does not exist", <<"A">>)

\* C4: a section with a registered name or an out-of-bounds board adds no
\* entry and leaves every entry on the same, unchanged ruleset; the pass goes
\* on, and a valid section is registered whatever failed before it.
C4_ErrorsLocal ==
    [][SectionStep =>
        LET name    == sect'.variant
            tmpl    == sect'.variant_template
            exists  == name \in DOMAIN variants
            missing == tmpl # <<>> /\ tmpl \notin DOMAIN variants
            tooBig  == ~exists /\ ~missing /\ ~InExtent(Built(variants, heap, sect'))
            valid   == ~exists /\ ~missing /\ InExtent(Built(variants, heap, sect'))
        IN  /\ pc' = "parsing"
            /\ \A n \in DOMAIN variants :
                  /\ n \in DOMAIN variants' /\ variants'[n] = variants[n]
                  /\ heap'[variants[n]] = heap[variants[n]]
            /\ (exists \/ tooBig) => variants' = variants /\ DOMAIN heap' = DOMAIN heap
            /\ valid => /\ DOMAIN variants' = DOMAIN variants \cup {name}
                        /\ InExtent(heap'[variants'[name]])]_vars

\* a valid section was registered after an earlier section of the pass failed
C4_Witness ==
    /\ pc = "parsing" /\ last.op = "added" /\ nFailed >= 1
    /\ sect.variant \in DOMAIN variants

\* C5 as stated: the raw fields of a child registered from a template equal
\* the template's except for the keys the section gives, and no existing
\* ruleset is changed.
C5_RawEqualExceptKeys ==
    [][(SectionStep /\ sect'.variant_template \in DOMAIN variants
          /\ sect'.variant \in DOMAIN variants' \ DOMAIN variants) =>
        LET base  == heap[variants[sect'.variant_template]]
            child == heap'[variants'[sect'.variant]]
        IN  /\ \A f \in RawFields \ KeyFields(DOMAIN sect'.attribs) : child[f] = base[f]
            /\ \A p \in DOMAIN heap : heap'[p] = heap[p]]_vars

\* C5 amended: the raw fields of a child registered from a template equal the
\* template's except for the keys the section gives and for doubleStep and
\* the double-step regions, which conclude() makes consistent (a region is
\* the given or inherited one, or cleared; doubleStep is the given or
\* inherited flag, or false); no existing ruleset is changed.
C5_RawEqualExceptKeysAndDoubleStep ==
    [][(SectionStep /\ sect'.variant_template \in DOMAIN variants
          /\ sect'.variant \in DOMAIN variants' \ DOMAIN variants) =>
        LET base  == heap[variants[sect'.variant_template]]
            child == heap'[variants'[sect'.variant]]
            given == Built(variants, heap, sect')
        IN  /\ \A f \in (RawFields \ KeyFields(DOMAIN sect'.attribs))
                           \ {"doubleStep", "doubleStepRegion"} : child[f] = base[f]
            /\ child.doubleStep \in {given.doubleStep, FALSE}
            /\ \A c \in Color :
                  child.doubleStepRegion[c] \in {given.doubleStepRegion[c], {}}
            /\ (child.doubleStep = FALSE) <=>
                  (child.doubleStepRegion[WHITE] = {} /\ child.doubleStepRegion[BLACK] = {})
            /\ variants'[sect'.variant] \notin DOMAIN heap
            /\ \A p \in DOMAIN heap : heap'[p] = heap[p]]_vars

\* child B of template A was registered with doubleStep = false given: its
\* regions are cleared, the template's are not
C5_Witness ==
    /\ last.op = "added" /\ sect.variant_template = <<"A">> /\ sect.variant = <<"B">>
    /\ <<"doubleStep">> \in DOMAIN sect.attribs
    /\ <<"B">> \in DOMAIN variants /\ <<"A">> \in DOMAIN variants
    /\ heap[variants[<<"B">>]].doubleStepRegion[WHITE] = {}
    /\ heap[variants[<<"A">>]].doubleStepRegion[WHITE] # {}

(***************************************************************************)
(* Properties of conclude() (checked under SpecConclude).  After a call,   *)
(* `before` is the ruleset the call was made on; calls counts the calls    *)
(* made since the raw fields last changed.                                 *)
(***************************************************************************)
BothRegionsEmpty(v) == v.doubleStepRegion[WHITE] = {} /\ v.doubleStepRegion[BLACK] = {}

\* C6: a second conclude() on a concluded ruleset whose raw fields were not
\* changed leaves every derived field, doubleStep and the double-step
\* regions as the first call left them.
C6_Idempotent ==
    calls >= 2 =>
        /\ \A f \in DerivedFields : ruleset[f] = before[f]
        /\ ruleset.doubleStep = before.doubleStep
        /\ ruleset.doubleStepRegion = before.doubleStepRegion

\* conclude() ran twice on a ruleset with an anchor, piece symbols in the
\* start position and connection directions, after stale derived fields
C6_Witness ==
    /\ calls = 2 /\ reopens = 1
    /\ ruleset.nnueKing # NO_PIECE_TYPE
    /\ ruleset.connect_directions # <<>>
    /\ ruleset.nnueMaxPieces > 0

\* C7: after conclude(), doubleStep is false iff both double-step regions are
\* empty; a flag that was off on entry leaves both regions empty, and regions
\* that were both empty on entry leave the flag off.
C7_DoubleStepConsistent ==
    calls >= 1 =>
        /\ (ruleset.doubleStep = FALSE) <=> BothRegionsEmpty(ruleset)
        /\ before.doubleStep = FALSE => BothRegionsEmpty(ruleset)
        /\ BothRegionsEmpty(before) => ruleset.doubleStep = FALSE

\* conclude() ran on a ruleset with doubleStep on and both regions empty
C7_Witness ==
    /\ calls = 1
    /\ before.doubleStep = TRUE /\ BothRegionsEmpty(before)
    /\ ruleset.doubleStep = FALSE

\* the squares of the board the anchor k of ruleset v can stand on
AnchorSquares(v, k) == {s \in 0..(NnueSquares(v) - 1) : KingReachable(v, k, s, ub)}

\* C8: with an anchor and a board of at most SQUARE_NB squares, distinct
\* anchor-reachable squares have distinct indices, the indices are
\* 0, 1, ..., k-1 times the per-king feature count, every other square keeps
\* what it held, and nnueDimensions is k times the per-king feature count.
\* Without an anchor square 0 has index 0, no other entry is written and
\* nnueDimensions is the per-king feature count.
C8_KingSquareIndex ==
    calls >= 1 =>
        LET k     == ruleset.nnueKing
            per   == NnuePieceIndices(ruleset, k)
            reach == AnchorSquares(ruleset, k)
            tab   == ruleset.kingSquareIndex
        IN  IF k # NO_PIECE_TYPE /\ NnueSquares(ruleset) <= 64
            THEN /\ \A s, t \in reach : s # t => tab[s] # tab[t]
                 /\ {tab[s] : s \in reach} = {i * per : i \in 0..(Cardinality(reach) - 1)}
                 /\ \A s \in Squares \ reach : tab[s] = before.kingSquareIndex[s]
                 /\ ruleset.nnueDimensions = Cardinality(reach) * per
            ELSE k = NO_PIECE_TYPE =>
                 /\ tab[0] = 0
                 /\ \A s \in Squares \ {0} : tab[s] = before.kingSquareIndex[s]
                 /\ ruleset.nnueDimensions = per

\* conclude() ran with an anchor whose mobility regions leave some squares
\* of the board unreachable; such a square still holds what it held
C8_Witness ==
    /\ calls >= 1
    /\ ruleset.nnueKing # NO_PIECE_TYPE /\ NnueSquares(ruleset) <= 64
    /\ Cardinality(AnchorSquares(ruleset, ruleset.nnueKing)) \in 2..(NnueSquares(ruleset) - 1)
    /\ 1 \in AnchorSquares(ruleset, ruleset.nnueKing)
    /\ 2 \notin AnchorSquares(ruleset, ruleset.nnueKing)
    /\ ruleset.kingSquareIndex[2] = 5

\* occurrences of the symbol of piece (c, k) in the board part of startFen
Occurrences(v, c, k) == CountChar(FenBoard(v.startFen), v.pieceToChar[make_piece(c, k)])

\* C9: a chosen anchor occurs exactly once per colour in the board part of
\* startFen, is in no promotion pawn types and no promotion piece types and
\* is no promoted form; a candidate (KING if in play, else COMMONER under
\* extinction with count 0) occurring 0 or 2+ times for a colour is rejected.
C9_AnchorUnique ==
    calls >= 1 =>
        LET k    == ruleset.nnueKing
            cand == IF KING \in ruleset.pieceTypes THEN KING
                    ELSE IF ruleset.extinctionPieceCount = 0
                            /\ COMMONER \in ruleset.extinctionPieceTypes THEN COMMONER
                    ELSE NO_PIECE_TYPE
        IN  /\ k # NO_PIECE_TYPE =>
                /\ Occurrences(ruleset, WHITE, k) = 1
                /\ Occurrences(ruleset, BLACK, k) = 1
                /\ \A c \in Color : /\ k \notin ruleset.promotionPawnTypes[c]
                                    /\ k \notin ruleset.promotionPieceTypes[c]
                /\ \A pt \in AllPieceTypes : ruleset.promotedPieceType[pt] # k
            /\ (cand # NO_PIECE_TYPE
                  /\ \E c \in Color : Occurrences(ruleset, c, cand) # 1) =>
                k = NO_PIECE_TYPE
            /\ k \in {cand, NO_PIECE_TYPE}

\* conclude() rejected the candidate KING, which stands twice for black
C9_Witness ==
    /\ calls >= 1
    /\ KING \in ruleset.pieceTypes
    /\ Occurrences(ruleset, BLACK, KING) = 2 /\ Occurrences(ruleset, WHITE, KING) = 1
    /\ ruleset.nnueKing = NO_PIECE_TYPE
    /\ ~InPromotion(ruleset, KING)

\* blocks [a, a + n) and [b, b + n) do not overlap
Disjoint(a, b, n) == a + n <= b \/ b + n <= a

\* C10: the assertion of the offset loop never fails; from either colour's
\* perspective the board-plane blocks (nnueSquares wide) of all non-anchor
\* (colour, type) pairs and of the anchor lie in [0, nnueNonDropPieceIndices)
\* without overlap, the pocket-plane blocks of the non-anchor pairs lie in
\* [nnueNonDropPieceIndices, nnuePieceIndices) without overlap, and offsets
\* ascend with the piece type, the anchor's being the last.
C10_OffsetLayout ==
    /\ asserted
    /\ calls >= 1 =>
        LET k       == ruleset.nnueKing
            sq      == NnueSquares(ruleset)
            pockets == NnuePockets(ruleset)
            nonDrop == NnueNonDropPieceIndices(ruleset, k)
            all     == NnuePieceIndices(ruleset, k)
            others  == ruleset.pieceTypes \ {k}
            pairs   == Color \X others
            anchor  == IF k = NO_PIECE_TYPE THEN {} ELSE {k}
        IN  \A c \in Color :
              LET board(x) == ruleset.pieceSquareIndex[c][x]
                  hand(x)  == ruleset.pieceHandIndex[c][x]
              IN  /\ \A x \in pairs : 0 <= board(x) /\ board(x) + sq <= nonDrop
                  /\ \A x, y \in pairs : x # y => Disjoint(board(x), board(y), sq)
                  /\ \A a \in anchor :
                        /\ board(<<WHITE, a>>) = board(<<BLACK, a>>)
                        /\ 0 <= board(<<c, a>>) /\ board(<<c, a>>) + sq <= nonDrop
                        /\ \A x \in pairs : board(x) + sq <= board(<<c, a>>)
                  /\ \A x \in pairs : nonDrop <= hand(x) /\ hand(x) + pockets <= all
                  /\ \A x, y \in pairs : x # y => Disjoint(hand(x), hand(y), pockets)
                  /\ \A x, y \in pairs : x[2] < y[2] => board(x) < board(y)

\* conclude() laid out a ruleset whose anchor COMMONER is not its largest
\* piece type, with pocket planes
C10_Witness ==
    /\ calls >= 1 /\ asserted
    /\ ruleset.nnueKing = COMMONER
    /\ CUSTOM_PIECE_1 \in ruleset.pieceTypes
    /\ ruleset.nnueUsePockets
    /\ ruleset.pieceSquareIndex[WHITE][<<WHITE, COMMONER>>]
          > ruleset.pieceSquareIndex[WHITE][<<BLACK, CUSTOM_PIECE_1>>]

=============================================================================
